---- MODULE Spec2Model ----
(***************************************************************************)
(* State-machine model of gcn.py: the graph splitter loop, the dataset     *)
(* partitioner, model construction, the epoch/batch training loop and      *)
(* compute_test.  Tensors are modelled by their shape and their flattened  *)
(* (row-major) data; a 2 x E edge index is the pair <<row0, row1>>.        *)
(***************************************************************************)
EXTENDS Integers, Sequences, FiniteSets, TLC

\* ------------------------------------------------------------------ bounds
MaxN == 10           \* graphs in the dataset of a full run
MaxBatch == 2        \* --batch_size
MaxEpochs == 2       \* --epochs
MaxFullPerm == 3     \* up to this size every permutation is drawn
MaxSplitGraphs == 2  \* graphs in a dataset of the splitter specification
MaxCols == 3         \* columns of its concatenated edge index

\* the loss values a batch may produce
LossValues == {0, 1}

\* the rotations of the permutations drawn beyond MaxFullPerm elements
Rotations == {0, 1, 2}

\* ----------------------------------------------------------- sequences
RECURSIVE SeqSum(_)
SeqSum(s) == IF s = <<>> THEN 0 ELSE Head(s) + SeqSum(Tail(s))

RECURSIVE Flatten(_)
Flatten(ss) == IF ss = <<>> THEN <<>> ELSE Head(ss) \o Flatten(Tail(ss))

Range(s) == {s[i] : i \in 1..Len(s)}

\* cumulative boundaries <<0, c1, c1+c2, ...>> of a sequence of counts
Cumul(counts) == [i \in 1..(Len(counts) + 1) |-> SeqSum(SubSeq(counts, 1, i - 1))]

\* ------------------------------------------------------------- tensors
\* A tensor is [shape, data]: its dimensions and its row-major elements.
Scalar(v) == [shape |-> <<>>, data |-> <<v>>]

Vector(vs) == [shape |-> <<Len(vs)>>, data |-> vs]

\* torch.Tensor.unsqueeze(0)
Unsqueeze0(t) == [shape |-> <<1>> \o t.shape, data |-> t.data]

\* torch.cat(ts) along dimension 0, ts non-empty with equal trailing dimensions
Cat0(ts) ==
    [shape |-> <<SeqSum([i \in 1..Len(ts) |-> Head(ts[i].shape)])>> \o Tail(ts[1].shape),
     data  |-> Flatten([i \in 1..Len(ts) |-> ts[i].data])]

\* torch.Tensor.squeeze(): every dimension of size 1 is removed
Squeeze(t) == [shape |-> SelectSeq(t.shape, LAMBDA d : d # 1), data |-> t.data]

\* --------------------------------------------------- the dataset provider
\* Node ids used by the edges of the generated datasets.
NodeIds == {0, 1}

Pairs(ei) == [j \in 1..Len(ei[1]) |-> <<ei[1][j], ei[2][j]>>]

Rows(ps) == <<[j \in 1..Len(ps) |-> ps[j][1]], [j \in 1..Len(ps) |-> ps[j][2]]>>

\* A graph of the provider: its edges (pairs of local node ids), its node
\* count and its label.
MkGraph(edges, label) ==
    [edges |-> edges,
     n     |-> IF \E j \in 1..Len(edges) : 1 \in {edges[j][1], edges[j][2]} THEN 2 ELSE 1,
     label |-> label]

\* The provider's store: the graphs' tensors concatenated, with the slice
\* boundaries of each graph (dataset.data and dataset.slices).
Collate(gs) ==
    LET es == Flatten([i \in 1..Len(gs) |-> gs[i].edges])
        nn == [i \in 1..Len(gs) |-> gs[i].n]
    IN  [edge_index        |-> Rows(es),
         x                 |-> [r \in 1..SeqSum(nn) |-> r],
         y                 |-> [i \in 1..Len(gs) |-> gs[i].label],
         num_nodes         |-> nn,
         slices_edge_index |-> Cumul([i \in 1..Len(gs) |-> Len(gs[i].edges)]),
         slices_x          |-> Cumul(nn)]

\* len(dataset)
DatasetLen(ds) == Len(ds.slices_edge_index) - 1

PairLess(p, q) == p[1] < q[1] \/ (p[1] = q[1] /\ p[2] < q[2])

RECURSIVE SortPairs(_)
SortPairs(S) ==
    IF S = {} THEN <<>>
    ELSE LET m == CHOOSE p \in S : \A q \in S \ {p} : PairLess(p, q)
         IN  <<m>> \o SortPairs(S \ {m})

\* transform=ToUndirected(): every edge also in the reverse direction,
\* coalesced (sorted, duplicates removed)
ToUndirected(ei) ==
    LET ps == Pairs(ei)
    IN  Rows(SortPairs(Range(ps) \cup {<<ps[j][2], ps[j][1]>> : j \in 1..Len(ps)}))

\* dataset[i], i counted from 0: graph i cut out of the store, transformed
DatasetGet(ds, i) ==
    LET lo == ds.slices_edge_index[i + 1]
        hi == ds.slices_edge_index[i + 2]
    IN  [src        |-> "dataset",
         idx        |-> i,
         edge_index |-> ToUndirected(<<SubSeq(ds.edge_index[1], lo + 1, hi),
                                       SubSeq(ds.edge_index[2], lo + 1, hi)>>),
         x          |-> SubSeq(ds.x, ds.slices_x[i + 1] + 1, ds.slices_x[i + 2]),
         y          |-> Vector(<<ds.y[i + 1]>>),
         num_nodes  |-> ds.num_nodes[i + 1]]

\* ---------------------------------------------------- the graph splitter
RECURSIVE SelectByMask(_, _)
SelectByMask(s, mask) ==
    IF s = <<>> THEN <<>>
    ELSE (IF Head(mask) THEN <<Head(s)>> ELSE <<>>) \o SelectByMask(Tail(s), Tail(mask))

\* torch.masked_select(t, mask) of a 2 x E tensor with a mask of length E: the
\* mask is broadcast over both rows and the selected elements come out as a
\* 1-D tensor in row-major order.
MaskedSelect(t, mask) == SelectByMask(t[1], mask) \o SelectByMask(t[2], mask)

Reshape2_Interleaved(flat) ==
    LET h == Len(flat) \div 2
    IN  <<[j \in 1..h |-> flat[2 * j - 1]], [j \in 1..h |-> flat[2 * j]]>>

\* .reshape(2, -1) of a 1-D tensor
Reshape2(flat) ==
    LET h == Len(flat) \div 2
    IN  <<SubSeq(flat, 1, h), SubSeq(flat, h + 1, 2 * h)>>

\* One iteration of the loop that builds graph_list, for graph `index`.
SplitGraph(ds, idx) ==
    LET edge_slice == ds.slices_edge_index[idx + 1]
        node_slice == ds.slices_x[idx + 1]
        sliced == <<SubSeq(ds.edge_index[1], edge_slice + 1, ds.slices_edge_index[idx + 2]),
                    SubSeq(ds.edge_index[2], edge_slice + 1, ds.slices_edge_index[idx + 2])>>
        mask   == [j \in 1..Len(sliced[1]) |-> sliced[1][j] = sliced[2][j]]
    IN  [src        |-> "graph_list",
         idx        |-> idx,
         edge_index |-> Reshape2(MaskedSelect(sliced, mask)),
         x          |-> SubSeq(ds.x, node_slice + 1, ds.slices_x[idx + 2]),
         y          |-> Scalar(ds.y[idx + 1]),
         num_nodes  |-> ds.num_nodes[idx + 1]]

\* ------------------------------------------------ the dataset partitioner
\* int(n * 0.2) and int(n * 0.1): the double nearest 0.2 (0.1) lies above
\* it by less than 2^-56, so the product truncates to the exact quotient.
IntTimes02(n) == (n * 2) \div 10

IntTimes01(n) == n \div 10

\* The outcomes of torch.randperm(n) that are drawn: all of them up to
\* MaxFullPerm elements, above that the rotations by Rotations and their
\* reversals.
Perms(n) ==
    IF n <= MaxFullPerm
    THEN {p \in [1..n -> 0..(n - 1)] : \A i, j \in 1..n : p[i] = p[j] => i = j}
    ELSE {[i \in 1..n |-> IF rev THEN (n - 1) - ((i - 1 + r) % n) ELSE (i - 1 + r) % n] :
             r \in Rotations, rev \in BOOLEAN}

RandomSplit_Overlap(perm, lengths) ==
    <<SubSeq(perm, 1, lengths[1]),
      SubSeq(perm, lengths[1] + 1, lengths[1] + lengths[2]),
      SubSeq(perm, lengths[1] + 1, lengths[1] + lengths[3])>>

\* random_split(dataset, lengths): consecutive pieces of one permutation
RandomSplit(perm, lengths) ==
    <<SubSeq(perm, 1, lengths[1]),
      SubSeq(perm, lengths[1] + 1, lengths[1] + lengths[2]),
      SubSeq(perm, lengths[1] + lengths[2] + 1, lengths[1] + lengths[2] + lengths[3])>>

\* ------------------------------------------------------- the batch loaders
RECURSIVE Chunk(_, _)
\* the batches of a loader: consecutive runs of b elements, the last one shorter
Chunk(s, b) ==
    IF s = <<>> THEN <<>>
    ELSE IF Len(s) <= b THEN <<s>>
    ELSE <<SubSeq(s, 1, b)>> \o Chunk(SubSeq(s, b + 1, Len(s)), b)

\* the graphs a loader hands out for a batch of subset indices
Fetch(ds, ids) == [j \in 1..Len(ids) |-> DatasetGet(ds, ids[j])]

\* y = torch.cat([d.y.unsqueeze(0) for d in data]).squeeze()
LabelsOfList(data) == Squeeze(Cat0([j \in 1..Len(data) |-> Unsqueeze0(data[j].y)]))

\* y = data.y of a merged batch: the graphs' y concatenated
LabelsOfBatch(data) == Cat0([j \in 1..Len(data) |-> data[j].y])

\* F.nll_loss(out, y) accepts a 1-D target with one entry per output row
NllLossAccepts(o, t) == t.shape = <<o.rows>>

\* ------------------------------------------------------------------ model
ModelTypes == {"gcn", "sage", "gat", "mlp"}

Conv1Of_Default(m) ==
    IF m = "gcn" THEN "GCNConv"
    ELSE IF m = "gat" THEN "GATConv"
    ELSE "SAGEConv"

\* Model.__init__: the convolution selected by args.model, none otherwise
Conv1Of(m) ==
    IF m = "gcn" THEN "GCNConv"
    ELSE IF m = "sage" THEN "SAGEConv"
    ELSE IF m = "gat" THEN "GATConv"
    ELSE "unset"

NoModel == [built |-> FALSE, conv1 |-> "unset", training |-> TRUE, params |-> 0, grad |-> "none"]

NoBatch == <<>>

NoOut == [rows |-> 0]

NoTensor == [shape |-> <<0>>, data |-> <<>>]

NoFrame == [loader |-> "none", out_log |-> <<>>, loss_test |-> 0]

\* ------------------------------------------------------------------ state
VARIABLES
    args,           \* the parsed command line
    dataset,        \* the provider's store
    index,          \* loop variable of the splitter
    graph_list,     \* the splitter's records
    num_training, num_val, num_test,
    training_set, validation_set, test_set,   \* Subset indices into dataset
    model,          \* conv1, mode flag, parameter version, gradient state
    optimizer,      \* number of steps taken
    min_loss, best_epoch,
    out_log,        \* the accumulator of the training loop
    epoch, loss_train, loss_val,
    batches,        \* what the running loader iteration still yields
    data, out, y, loss,
    frame,          \* locals of compute_test while it runs
    evals,          \* the calls of eval_deep so far, with their argument
    ops,            \* the operations of the current training step so far
    err,
    pc

vars == <<args, dataset, index, graph_list, num_training, num_val, num_test,
          training_set, validation_set, test_set, model, optimizer, min_loss,
          best_epoch, out_log, epoch, loss_train, loss_val, batches, data, out,
          y, loss, frame, evals, ops, err, pc>>

dataVars == <<args, dataset>>
splitVars == <<index, graph_list>>
partVars == <<num_training, num_val, num_test, training_set, validation_set, test_set>>
loopVars == <<min_loss, best_epoch, out_log, epoch, loss_train, loss_val>>
stepVars == <<batches, data, out, y, loss>>

\* min_loss = 1e10 (the float is kept as its literal)
MinLossInit == "1e10"

BaseGraphs == << <<<<0, 1>>, <<1, 1>>>>, <<<<0, 0>>>>, <<>> >>

\* the dataset of a full run with n graphs
MainGraphs(n) ==
    [i \in 1..n |-> MkGraph(BaseGraphs[((i - 1) % Len(BaseGraphs)) + 1], (i - 1) % 2)]

Rest ==
    /\ index = 0
    /\ graph_list = <<>>
    /\ num_training = 0 /\ num_val = 0 /\ num_test = 0
    /\ training_set = <<>> /\ validation_set = <<>> /\ test_set = <<>>
    /\ model = NoModel
    /\ optimizer = [built |-> FALSE, steps |-> 0]
    /\ min_loss = "undefined" /\ best_epoch = 0
    /\ out_log = <<>>
    /\ epoch = 0 /\ loss_train = 0 /\ loss_val = 0
    /\ batches = <<>> /\ data = NoBatch /\ out = NoOut /\ y = NoTensor /\ loss = 0
    /\ frame = NoFrame
    /\ evals = <<>>
    /\ ops = <<>>
    /\ err = "none"
    /\ pc = "split"

Init ==
    /\ args \in [batch_size : 1..MaxBatch, epochs : 0..MaxEpochs,
                 multi_gpu : BOOLEAN, model : ModelTypes]
    /\ \E n \in 0..MaxN : dataset = Collate(MainGraphs(n))
    /\ Rest

\* --------------------------------------------------------------- splitter
SplitterStep ==
    /\ pc = "split"
    /\ index < DatasetLen(dataset)
    /\ graph_list' = Append(graph_list, SplitGraph(dataset, index))
    /\ index' = index + 1
    /\ UNCHANGED <<dataVars, partVars, model, optimizer, loopVars, stepVars,
                   frame, evals, ops, err, pc>>

\* the loop over the slices is exhausted
SplitterExit ==
    /\ pc = "split"
    /\ index = DatasetLen(dataset)
    /\ pc' = "partition"
    /\ UNCHANGED <<dataVars, splitVars, partVars, model, optimizer, loopVars,
                   stepVars, frame, evals, ops, err>>

\* ------------------------------------------------------------ partitioner
Partition ==
    /\ pc = "partition"
    /\ num_training' = IntTimes02(DatasetLen(dataset))
    /\ num_val' = IntTimes01(DatasetLen(dataset))
    /\ num_test' = DatasetLen(dataset) - (num_training' + num_val')
    /\ \E perm \in Perms(DatasetLen(dataset)) :
          LET parts == RandomSplit(perm, <<num_training', num_val', num_test'>>)
          IN  /\ training_set' = parts[1]
              /\ validation_set' = parts[2]
              /\ test_set' = parts[3]
    /\ pc' = "construct"
    /\ UNCHANGED <<dataVars, splitVars, model, optimizer, loopVars, stepVars,
                   frame, evals, ops, err>>

\* model = Model(args, ...), the optimizer over its parameters
Construct ==
    /\ pc = "construct"
    /\ model' = [built |-> TRUE, conv1 |-> Conv1Of(args.model), training |-> TRUE,
                 params |-> 0, grad |-> "none"]
    /\ optimizer' = [built |-> TRUE, steps |-> 0]
    /\ pc' = "main"
    /\ UNCHANGED <<dataVars, splitVars, partVars, loopVars, stepVars, frame,
                   evals, ops, err>>

\* ---------------------------------------------------------- training loop
MainBegin ==
    /\ pc = "main"
    /\ min_loss' = MinLossInit
    /\ best_epoch' = 0
    /\ out_log' = <<>>
    /\ model' = [model EXCEPT !.training = TRUE]
    /\ epoch' = 0
    /\ pc' = "epoch"
    /\ UNCHANGED <<dataVars, splitVars, partVars, optimizer, loss_train, loss_val,
                   stepVars, frame, evals, ops, err>>

\* an epoch starts: the shuffling loader draws a new order of the training set
EpochBegin ==
    /\ pc = "epoch"
    /\ epoch < args.epochs
    /\ loss_train' = 0
    /\ \E perm \in Perms(Len(training_set)) :
          batches' = Chunk([i \in 1..Len(training_set) |-> training_set[perm[i] + 1]],
                           args.batch_size)
    /\ pc' = "batch"
    /\ UNCHANGED <<dataVars, splitVars, partVars, model, optimizer, min_loss,
                   best_epoch, out_log, epoch, loss_val, data, out, y, loss,
                   frame, evals, ops, err>>

ZeroGrad ==
    /\ pc = "batch"
    /\ batches # <<>>
    /\ data' = Fetch(dataset, Head(batches))
    /\ batches' = Tail(batches)
    /\ model' = [model EXCEPT !.grad = "zero"]
    /\ ops' = <<"zero_grad">>
    /\ pc' = "forward"
    /\ UNCHANGED <<dataVars, splitVars, partVars, optimizer, loopVars, out, y,
                   loss, frame, evals, err>>

\* out = model(data): Model.forward reads self.conv1
ForwardOf(m, d) == IF m.conv1 = "unset" THEN "AttributeError" ELSE "ok"

Forward ==
    /\ pc = "forward"
    /\ ops' = Append(ops, "forward")
    /\ IF ForwardOf(model, data) = "ok"
       THEN /\ out' = [rows |-> Len(data)]
            /\ pc' = "labels"
            /\ err' = err
       ELSE /\ out' = out
            /\ pc' = "error"
            /\ err' = ForwardOf(model, data)
    /\ UNCHANGED <<dataVars, splitVars, partVars, model, optimizer, loopVars,
                   batches, data, y, loss, frame, evals>>

\* the labels of the batch, as the running mode assembles them
LabelsOf(multi_gpu, d) == IF multi_gpu THEN LabelsOfList(d) ELSE LabelsOfBatch(d)

Labels ==
    /\ pc = "labels"
    /\ y' = LabelsOf(args.multi_gpu, data)
    /\ pc' = "loss"
    /\ UNCHANGED <<dataVars, splitVars, partVars, model, optimizer, loopVars,
                   batches, data, out, loss, frame, evals, ops, err>>

Loss ==
    /\ pc = "loss"
    /\ ops' = Append(ops, "nll_loss")
    /\ IF NllLossAccepts(out, y)
       THEN /\ \E l \in LossValues : loss' = l
            /\ pc' = "backward"
            /\ err' = err
       ELSE /\ loss' = loss
            /\ pc' = "error"
            /\ err' = "ValueError"
    /\ UNCHANGED <<dataVars, splitVars, partVars, model, optimizer, loopVars,
                   batches, data, out, y, frame, evals>>

Backward_Steps ==
    /\ pc = "backward"
    /\ model' = [model EXCEPT !.grad = "computed", !.params = @ + 1]
    /\ ops' = Append(ops, "backward")
    /\ pc' = "step"
    /\ UNCHANGED <<dataVars, splitVars, partVars, optimizer, loopVars, stepVars,
                   frame, evals, err>>

Backward ==
    /\ pc = "backward"
    /\ model' = [model EXCEPT !.grad = "computed"]
    /\ ops' = Append(ops, "backward")
    /\ pc' = "step"
    /\ UNCHANGED <<dataVars, splitVars, partVars, optimizer, loopVars, stepVars,
                   frame, evals, err>>

OptimizerStep ==
    /\ pc = "step"
    /\ model' = [model EXCEPT !.params = @ + 1]
    /\ optimizer' = [optimizer EXCEPT !.steps = @ + 1]
    /\ ops' = Append(ops, "step")
    /\ pc' = "accumulate"
    /\ UNCHANGED <<dataVars, splitVars, partVars, loopVars, stepVars, frame,
                   evals, err>>

\* an entry of an accumulator: the softmax rows and the labels of one batch
\* (pass and epoch record where the entry was made)
Entry(o, t, pass, ep) == [probs |-> o.rows, y |-> t, pass |-> pass, epoch |-> ep]

Accumulate ==
    /\ pc = "accumulate"
    /\ loss_train' = loss_train + loss
    /\ out_log' = Append(out_log, Entry(out, y, "train", epoch))
    /\ ops' = Append(ops, "accumulate")
    /\ pc' = "batch"
    /\ UNCHANGED <<dataVars, splitVars, partVars, model, optimizer, min_loss,
                   best_epoch, epoch, loss_val, stepVars, frame, evals, err>>

\* the training batches of the epoch are exhausted: eval_deep(out_log)
TrainMetrics ==
    /\ pc = "batch"
    /\ batches = <<>>
    /\ evals' = Append(evals, [pass |-> "train", epoch |-> epoch, log |-> out_log])
    /\ pc' = "validate"
    /\ UNCHANGED <<dataVars, splitVars, partVars, model, optimizer, loopVars,
                   stepVars, frame, ops, err>>

\* ----------------------------------------------------------- compute_test
\* entry of compute_test(loader): fresh out_log, model.eval(), loss_test = 0,
\* and the iteration over the (unshuffled) loader begins
EnterComputeTest(which, subset) ==
    /\ frame' = [loader |-> which, out_log |-> <<>>, loss_test |-> 0]
    /\ model' = [model EXCEPT !.training = FALSE]
    /\ batches' = Chunk(subset, args.batch_size)
    /\ pc' = "ct_batch"

Validate ==
    /\ pc = "validate"
    /\ EnterComputeTest("val", validation_set)
    /\ UNCHANGED <<dataVars, splitVars, partVars, optimizer, loopVars, data, out,
                   y, loss, evals, ops, err>>

\* the epochs are exhausted: compute_test(test_loader)
Test ==
    /\ pc = "epoch"
    /\ epoch >= args.epochs
    /\ EnterComputeTest("test", test_set)
    /\ UNCHANGED <<dataVars, splitVars, partVars, optimizer, loopVars, data, out,
                   y, loss, evals, ops, err>>

CTFetch ==
    /\ pc = "ct_batch"
    /\ batches # <<>>
    /\ data' = Fetch(dataset, Head(batches))
    /\ batches' = Tail(batches)
    /\ pc' = "ct_forward"
    /\ UNCHANGED <<dataVars, splitVars, partVars, model, optimizer, loopVars, out,
                   y, loss, frame, evals, ops, err>>

CTForward_Grad ==
    /\ pc = "ct_forward"
    /\ IF ForwardOf(model, data) = "ok"
       THEN /\ out' = [rows |-> Len(data)]
            /\ model' = [model EXCEPT !.grad = "computed"]
            /\ pc' = "ct_labels"
            /\ err' = err
       ELSE /\ out' = out
            /\ model' = model
            /\ pc' = "error"
            /\ err' = ForwardOf(model, data)
    /\ UNCHANGED <<dataVars, splitVars, partVars, optimizer, loopVars,
                   batches, data, y, loss, frame, evals, ops>>

CTForward ==
    /\ pc = "ct_forward"
    /\ IF ForwardOf(model, data) = "ok"
       THEN /\ out' = [rows |-> Len(data)]
            /\ pc' = "ct_labels"
            /\ err' = err
       ELSE /\ out' = out
            /\ pc' = "error"
            /\ err' = ForwardOf(model, data)
    /\ UNCHANGED <<dataVars, splitVars, partVars, model, optimizer, loopVars,
                   batches, data, y, loss, frame, evals, ops>>

CTLabels ==
    /\ pc = "ct_labels"
    /\ y' = LabelsOf(args.multi_gpu, data)
    /\ frame' = [frame EXCEPT !.out_log = Append(@, Entry(out, y', frame.loader, epoch))]
    /\ pc' = "ct_loss"
    /\ UNCHANGED <<dataVars, splitVars, partVars, model, optimizer, loopVars,
                   batches, data, out, loss, evals, ops, err>>

CTLoss ==
    /\ pc = "ct_loss"
    /\ IF NllLossAccepts(out, y)
       THEN /\ \E l \in LossValues :
                 frame' = [frame EXCEPT !.loss_test = @ + l]
            /\ pc' = "ct_batch"
            /\ err' = err
       ELSE /\ frame' = frame
            /\ pc' = "error"
            /\ err' = "ValueError"
    /\ UNCHANGED <<dataVars, splitVars, partVars, model, optimizer, loopVars,
                   stepVars, evals, ops>>

\* return eval_deep(out_log), loss_test; the frame is gone afterwards
LeaveComputeTest ==
    /\ pc = "ct_batch"
    /\ batches = <<>>
    /\ evals' = Append(evals, [pass |-> frame.loader, epoch |-> epoch, log |-> frame.out_log])
    /\ frame' = NoFrame

\* back in the epoch loop: loss_val is bound, the metrics are printed
ValidateReturn ==
    /\ frame.loader = "val"
    /\ LeaveComputeTest
    /\ loss_val' = frame.loss_test
    /\ epoch' = epoch + 1
    /\ pc' = "epoch"
    /\ UNCHANGED <<dataVars, splitVars, partVars, model, optimizer, min_loss,
                   best_epoch, out_log, loss_train, stepVars, ops, err>>

\* back after the loop: the test metrics are printed and the script ends
TestReturn ==
    /\ frame.loader = "test"
    /\ LeaveComputeTest
    /\ pc' = "done"
    /\ UNCHANGED <<dataVars, splitVars, partVars, model, optimizer, loopVars,
                   stepVars, ops, err>>

Next ==
    \/ SplitterStep \/ SplitterExit
    \/ Partition \/ Construct \/ MainBegin
    \/ EpochBegin \/ ZeroGrad \/ Forward \/ Labels \/ Loss \/ Backward
    \/ OptimizerStep \/ Accumulate \/ TrainMetrics
    \/ Validate \/ Test \/ CTFetch \/ CTForward \/ CTLabels \/ CTLoss
    \/ ValidateReturn \/ TestReturn

Spec == Init /\ [][Next]_vars

\* ----------------------------------------------- splitter specification
\* Every concatenated edge index of up to MaxCols columns over NodeIds, cut
\* into up to MaxSplitGraphs graphs in every possible way.
SplitDataset(es, cut) ==
    Collate([i \in 1..(Len(cut) - 1) |-> MkGraph(SubSeq(es, cut[i] + 1, cut[i + 1]), i % 2)])

SplitInit ==
    /\ args = [batch_size |-> 1, epochs |-> 0, multi_gpu |-> FALSE, model |-> "sage"]
    /\ \E e \in 0..MaxCols, g \in 0..MaxSplitGraphs :
          \E es \in [1..e -> NodeIds \X NodeIds], cut \in [1..(g + 1) -> 0..e] :
              /\ cut[1] = 0 /\ cut[g + 1] = e
              /\ \A i \in 1..g : cut[i] <= cut[i + 1]
              /\ dataset = SplitDataset(es, cut)
    /\ Rest

SplitSpec == SplitInit /\ [][SplitterStep]_vars

\* ================================================================ claims
N == DatasetLen(dataset)

Partitioned == pc \notin {"split", "partition"}

TrainPcs == {"forward", "labels", "loss", "backward", "step", "accumulate"}

Supported == args.model \in {"gcn", "sage", "gat"}

Injective(s) == \A i, j \in 1..Len(s) : s[i] = s[j] => i = j

\* C1: once the partitioner has run, the training subset has floor(0.2 N)
\* graphs, the validation subset floor(0.1 N) and the test subset the rest;
\* the subsets are pairwise disjoint and hold each of the N graphs exactly
\* once, for every permutation drawn.
C1_Partition ==
    Partitioned =>
        /\ 5 * num_training <= N /\ N < 5 * (num_training + 1)
        /\ 10 * num_val <= N /\ N < 10 * (num_val + 1)
        /\ num_test = N - num_training - num_val
        /\ Len(training_set) = num_training
        /\ Len(validation_set) = num_val
        /\ Len(test_set) = num_test
        /\ Injective(training_set \o validation_set \o test_set)
        /\ Range(training_set \o validation_set \o test_set) = 0..(N - 1)

C1_Witness ==
    /\ pc = "construct"
    /\ num_training = 2 /\ num_val = 1 /\ num_test = 7
    /\ training_set # <<0, 1>>

\* C3: the operations of a training step happen in the order zero_grad,
\* forward, nll_loss, backward, optimizer step, accumulation; a completed
\* step holds exactly one optimizer step, the optimizer has stepped once per
\* completed training batch, and the parameters change only in that step.
StepOrder == <<"zero_grad", "forward", "nll_loss", "backward", "step", "accumulate">>

C3_StepOrder ==
    /\ [](/\ Len(ops) <= Len(StepOrder)
          /\ ops = SubSeq(StepOrder, 1, Len(ops))
          /\ (pc \in {"batch", "validate"} /\ ops # <<>> => ops = StepOrder)
          /\ (pc # "error" =>
                optimizer.steps = Len(out_log) + (IF pc = "accumulate" THEN 1 ELSE 0))
          /\ model.params = optimizer.steps)
    /\ [][model.params' # model.params =>
             /\ pc = "step" /\ pc' = "accumulate"
             /\ model.params' = model.params + 1
             /\ ops = SubSeq(StepOrder, 1, 4)]_vars

C3_Witness ==
    /\ pc = "batch"
    /\ epoch = 1
    /\ ops = StepOrder
    /\ optimizer.steps = 3

\* C5: whenever a training step of epoch k runs, eval_deep has been called
\* 2k times, alternately for the training metrics and for one validation
\* pass of each earlier epoch, each validation pass with one entry per batch
\* of the validation set; and no step of compute_test changes the
\* parameters, the gradients or the optimizer.
ValBatches == Chunk(validation_set, args.batch_size)

WholeValPass(e, ep) ==
    /\ e.pass = "val" /\ e.epoch = ep
    /\ Len(e.log) = Len(ValBatches)
    /\ \A j \in 1..Len(e.log) : e.log[j].probs = Len(ValBatches[j])

InComputeTest == frame.loader # "none"

C5_Validation ==
    /\ [](pc \in TrainPcs \cup {"batch"} =>
             /\ Len(evals) = 2 * epoch
             /\ \A i \in 1..epoch :
                   /\ evals[2 * i - 1].pass = "train" /\ evals[2 * i - 1].epoch = i - 1
                   /\ WholeValPass(evals[2 * i], i - 1))
    /\ [][InComputeTest \/ InComputeTest' =>
             /\ model.params' = model.params
             /\ model.grad' = model.grad
             /\ optimizer' = optimizer]_vars

C5_Witness ==
    /\ pc = "forward"
    /\ epoch = 1
    /\ Len(evals) = 2
    /\ evals[2].log # <<>>
    /\ model.params > 0

\* C8: with a model type outside gcn, sage and gat the model is built
\* without an error and without a convolution; nothing fails before a
\* forward pass is attempted, the first forward pass attempted ends the run
\* with the AttributeError, no batch gets past its forward pass, and the run
\* stays ended.
C8_Unsupported ==
    /\ [](~Supported =>
             /\ (model.built => model.conv1 = "unset")
             /\ (pc = "error" <=> err # "none")
             /\ (pc = "error" => err = "AttributeError")
             /\ pc \notin {"labels", "loss", "backward", "step", "accumulate",
                           "ct_labels", "ct_loss"}
             /\ optimizer.steps = 0 /\ model.params = 0
             /\ out_log = <<>> /\ frame.out_log = <<>>
             /\ \A i \in 1..Len(evals) : evals[i].log = <<>>)
    /\ [][~Supported =>
             /\ (pc \in {"forward", "ct_forward"} => pc' = "error")
             /\ (pc = "error" => pc' = "error")]_vars

C8_Witness ==
    /\ ~Supported
    /\ pc = "error"
    /\ err = "AttributeError"
    /\ model.built
    /\ epoch = 0

\* C6: the record of graph i holds the node rows [node_slice[i],
\* node_slice[i+1]) and, of the edge columns [edge_slice[i], edge_slice[i+1]),
\* exactly those with equal source and destination, in their original order
\* and still paired; a slice without self-loops gives an empty edge set.
EdgeColumns(i) ==
    [j \in 1..(dataset.slices_edge_index[i + 2] - dataset.slices_edge_index[i + 1]) |->
        <<dataset.edge_index[1][dataset.slices_edge_index[i + 1] + j],
          dataset.edge_index[2][dataset.slices_edge_index[i + 1] + j]>>]

NodeRows(i) ==
    [j \in 1..(dataset.slices_x[i + 2] - dataset.slices_x[i + 1]) |->
        dataset.x[dataset.slices_x[i + 1] + j]]

SelfLoop(p) == p[1] = p[2]

C6_SelfLoops ==
    /\ Len(graph_list) = index
    /\ \A i \in 0..(Len(graph_list) - 1) :
          LET g == graph_list[i + 1]
          IN  /\ Len(g.edge_index) = 2
              /\ Len(g.edge_index[1]) = Len(g.edge_index[2])
              /\ Pairs(g.edge_index) = SelectSeq(EdgeColumns(i), SelfLoop)
              /\ g.x = NodeRows(i)
              /\ ((\A j \in 1..Len(EdgeColumns(i)) : ~SelfLoop(EdgeColumns(i)[j]))
                    => g.edge_index = <<<<>>, <<>>>>)

C6_Witness ==
    \E i \in 0..(Len(graph_list) - 1) :
        /\ i > 0
        /\ EdgeColumns(i) = <<<<1, 1>>, <<0, 1>>, <<0, 0>>>>
        /\ graph_list[i + 1].edge_index = <<<<1, 0>>, <<1, 0>>>>

\* C2 (as claimed): with a supported model type, a run that has ended has
\* run exactly the configured number of epochs, each with its validation
\* pass, then one test pass, and is in the done state with min_loss and
\* best_epoch as initialised.
Count(s, pass) == Cardinality({i \in 1..Len(s) : s[i].pass = pass})

C2_Claim ==
    Supported /\ pc \in {"done", "error"} =>
        /\ pc = "done"
        /\ epoch = args.epochs
        /\ Count(evals, "train") = args.epochs
        /\ Count(evals, "val") = args.epochs
        /\ Count(evals, "test") = 1
        /\ min_loss = MinLossInit /\ best_epoch = 0

\* C4 (as claimed): the accumulator handed to eval_deep holds exactly one
\* entry per batch of the pass it is consumed for, and no entry of another
\* epoch or pass.
BatchesOf(pass) ==
    Chunk(IF pass = "train" THEN training_set
          ELSE IF pass = "val" THEN validation_set ELSE test_set, args.batch_size)

C4_Claim ==
    \A i \in 1..Len(evals) :
        /\ Len(evals[i].log) = Len(BatchesOf(evals[i].pass))
        /\ \A j \in 1..Len(evals[i].log) :
              /\ evals[i].log[j].pass = evals[i].pass
              /\ evals[i].log[j].epoch = evals[i].epoch

\* C7 (as claimed): every graph of a batch that reaches a forward pass is
\* the splitter's record of that graph and has only self-loop edges.
OnlySelfLoops(g) == \A j \in 1..Len(g.edge_index[1]) : g.edge_index[1][j] = g.edge_index[2][j]

C7_Claim ==
    pc \in {"forward", "ct_forward"} =>
        \A j \in 1..Len(data) :
            /\ data[j].src = "graph_list"
            /\ data[j].edge_index = graph_list[data[j].idx + 1].edge_index
            /\ OnlySelfLoops(data[j])

\* C9 (as claimed): the model is in training mode at every forward pass of
\* a training step and in evaluation mode at every forward pass of
\* compute_test.
C9_Claim ==
    /\ (pc = "forward" => model.training)
    /\ (pc = "ct_forward" => ~model.training)

\* C10 (as claimed): in multi-accelerator mode the labels assembled for a
\* batch of k graphs are a 1-D tensor of length k, entry j the label of
\* graph j, matching the k rows of the output.
C10_Claim ==
    args.multi_gpu /\ pc \in {"loss", "ct_loss"} =>
        /\ y.shape = <<Len(data)>>
        /\ y.shape = <<out.rows>>
        /\ \A j \in 1..Len(data) : y.data[j] = data[j].y.data[1]

====
